---- MODULE Spec2Model ----
(***************************************************************************)
(* A model of the streaming HTML URL-prefixing transformer                 *)
(* (html-transformer.js: Chars, the rewrite strategies, RewriteTags, the  *)
(* SM state table, WriteBuffer and HTMLTransformer).                       *)
(*                                                                         *)
(* Units are integers: bytes 0..255 on input and in the output buffer,    *)
(* UTF-16 code units inside JavaScript strings.  A JavaScript array of    *)
(* units and a JavaScript string are both sequences of integers.          *)
(***************************************************************************)
EXTENDS Integers, Sequences, FiniteSets, TLC

VARIABLES
    state,      \* this._state: a key of SM
    vars,       \* this._vars: the parse context
    buffer,     \* this._buffer: the WriteBuffer, with the chunks it pushed
    input,      \* every unit handed to _transform so far, in order
    nchunks,    \* number of _transform calls so far, on either instance
    pc,         \* stream position: "open", "flushed"; harness: "call", "returned"
    awaiting,   \* the callback Node handed over that was not invoked yet
    thrown,     \* the error a handler raised, "none" if none
    profile,    \* the family of documents the caller writes
    peer,       \* a second HTMLTransformer instance: its fields and its input
    call        \* an activation of makeFileRecords: its arguments and locals

allvars ==
    <<state, vars, buffer, input, nchunks, pc, awaiting, thrown, profile, peer, call>>

----------------------------------------------------------------------------
(* Notation for literals: the printable ASCII characters, code 32 to 126.  *)

AsciiChars ==
    << " ", "!", "\"", "#", "$", "%", "&", "'", "(", ")", "*", "+", ",", "-",
       ".", "/", "0", "1", "2", "3", "4", "5", "6", "7", "8", "9", ":", ";",
       "<", "=", ">", "?", "@", "A", "B", "C", "D", "E", "F", "G", "H", "I",
       "J", "K", "L", "M", "N", "O", "P", "Q", "R", "S", "T", "U", "V", "W",
       "X", "Y", "Z", "[", "backslash", "]", "^", "_", "backtick", "a", "b", "c", "d", "e",
       "f", "g", "h", "i", "j", "k", "l", "m", "n", "o", "p", "q", "r", "s",
       "t", "u", "v", "w", "x", "y", "z", "{", "|", "}", "~" >>

\* The code of a printable ASCII character (String.prototype.charCodeAt).
Ord(c) == 31 + (CHOOSE i \in 1..Len(AsciiChars) : AsciiChars[i] = c)

\* The units of a literal given character by character.
U(t) == [i \in 1..Len(t) |-> Ord(t[i])]

\* F applied to the value of x.  TLC evaluates the element of a set once
\* and binds y to the value, where LET would re-evaluate x at each use.
With(x, F(_)) == CHOOSE res \in { F(y) : y \in {x} } : TRUE

RECURSIVE ConcatFrom(_, _)
ConcatFrom(ss, i) == IF i > Len(ss) THEN << >> ELSE ss[i] \o ConcatFrom(ss, i + 1)

\* The concatenation of a sequence of sequences.
Concat(ss) == ConcatFrom(ss, 1)

----------------------------------------------------------------------------
(* Chars, and the byte classifier.                                         *)

Chars ==
    [ Tab |-> 9, LF |-> 10, CR |-> 13, Space |-> 32, Bang |-> 33,
      DQuote |-> 34, SQuote |-> 39, Dash |-> 45, Slash |-> 47, Lt |-> 60,
      Eq |-> 61, Gt |-> 62, A |-> 65, Z |-> 90, Underscore |-> 95,
      a |-> 97, z |-> 122 ]

isNameChar(ch) ==
    \/ (ch >= Chars.A /\ ch <= Chars.Z)
    \/ (ch >= Chars.a /\ ch <= Chars.z)
    \/ ch = Chars.Dash
    \/ ch = Chars.Underscore

isTagChar(ch) == ch = Chars.Bang \/ isNameChar(ch)

isWhitespace(ch) ==
    \/ ch = Chars.Space
    \/ ch = Chars.Tab
    \/ ch = Chars.LF
    \/ ch = Chars.CR

isNonWhitespace(ch) == ~isWhitespace(ch)

----------------------------------------------------------------------------
(* JavaScript values of the parse context.  A field that is undefined,    *)
(* deleted or false is a one-element sequence holding a negative number,  *)
(* which no unit is.                                                       *)

Undefined == << -1 >>
False     == << -2 >>
UndefUnit == -1

\* JavaScript truthiness of a field holding undefined, false or an array.
Truthy(v) == v # Undefined /\ v # False

----------------------------------------------------------------------------
(* str( arr ): Buffer.from( arr ).toString(), a UTF-8 decode to UTF-16    *)
(* code units.  An ill-formed sequence decodes to U+FFFD, one per maximal *)
(* subpart.                                                                *)

IsCont(b) == b >= 128 /\ b <= 191

\* [n |-> bytes consumed, out |-> code units] for the sequence starting at i.
DecodeAt(s, i) ==
    LET b0 == s[i] % 256
        has(k) == i + k <= Len(s)
        b(k) == s[i + k] % 256
        bad(n) == [n |-> n, out |-> << 65533 >>]
        lo2 == IF b0 = 224 THEN 160 ELSE IF b0 = 240 THEN 144 ELSE 128
        hi2 == IF b0 = 237 THEN 159 ELSE IF b0 = 244 THEN 143 ELSE 191
        ok1 == has(1) /\ b(1) >= lo2 /\ b(1) <= hi2
        ok2 == has(2) /\ IsCont(b(2))
        ok3 == has(3) /\ IsCont(b(3))
    IN  IF b0 < 128 THEN [n |-> 1, out |-> << b0 >>]
        ELSE IF b0 >= 194 /\ b0 <= 223 THEN
            IF ok1 THEN [n |-> 2, out |-> << (b0 - 192) * 64 + (b(1) - 128) >>]
            ELSE bad(1)
        ELSE IF b0 >= 224 /\ b0 <= 239 THEN
            IF ~ok1 THEN bad(1)
            ELSE IF ~ok2 THEN bad(2)
            ELSE [n |-> 3,
                  out |-> << (b0 - 224) * 4096 + (b(1) - 128) * 64 + (b(2) - 128) >>]
        ELSE IF b0 >= 240 /\ b0 <= 244 THEN
            IF ~ok1 THEN bad(1)
            ELSE IF ~ok2 THEN bad(2)
            ELSE IF ~ok3 THEN bad(3)
            ELSE LET cp == (b0 - 240) * 262144 + (b(1) - 128) * 4096
                           + (b(2) - 128) * 64 + (b(3) - 128)
                     v  == cp - 65536
                 IN  [n |-> 4, out |-> << 55296 + (v \div 1024), 56320 + (v % 1024) >>]
        ELSE bad(1)

RECURSIVE strFrom(_, _)
strFrom(s, i) ==
    IF i > Len(s) THEN << >>
    ELSE With(DecodeAt(s, i), LAMBDA d : d.out \o strFrom(s, i + d.n))

str(arr) == strFrom(arr, 1)

\* String.prototype.toLowerCase on one code unit: ASCII, Latin-1, and the
\* two code points outside Latin-1 whose lower case contains an ASCII letter.
lowerUnit(u) ==
    IF u >= 65 /\ u <= 90 THEN << u + 32 >>
    ELSE IF u >= 192 /\ u <= 222 /\ u # 215 THEN << u + 32 >>
    ELSE IF u = 8490 THEN << 107 >>
    ELSE IF u = 304 THEN << 105, 775 >>
    ELSE << u >>

toLowerCase(s) == Concat([i \in 1..Len(s) |-> lowerUnit(s[i])])

\* The code units String.prototype.trim removes and the regex class \s matches.
JsWhitespace ==
    {9, 10, 11, 12, 13, 32, 160, 5760, 8232, 8233, 8239, 8287, 12288, 65279}
        \cup (8192..8202)

RECURSIVE firstNonSpace(_, _)
\* The first index at or after i that holds no white space, Len(s) + 1 if none.
firstNonSpace(s, i) ==
    IF i <= Len(s) /\ s[i] \in JsWhitespace THEN firstNonSpace(s, i + 1) ELSE i

RECURSIVE lastNonSpace(_, _)
\* The last index at or before j that holds no white space, 0 if none.
lastNonSpace(s, j) ==
    IF j >= 1 /\ s[j] \in JsWhitespace THEN lastNonSpace(s, j - 1) ELSE j

trim(s) == SubSeq(s, firstNonSpace(s, 1), lastNonSpace(s, Len(s)))

RECURSIVE splitFrom(_, _, _, _)
\* The pieces of s from index i on, the current piece having started at from.
splitFrom(s, sep, from, i) ==
    IF i > Len(s) THEN << SubSeq(s, from, Len(s)) >>
    ELSE IF s[i] = sep
    THEN << SubSeq(s, from, i - 1) >> \o splitFrom(s, sep, i + 1, i + 1)
    ELSE splitFrom(s, sep, from, i + 1)

\* String.prototype.split on the one-unit separator sep: the list of pieces.
split(s, sep) == splitFrom(s, sep, 1, 1)

\* Array.prototype.join.
join(parts, sep) ==
    Concat([i \in 1..Len(parts) |-> IF i = 1 THEN parts[i] ELSE sep \o parts[i]])

----------------------------------------------------------------------------
(* WriteBuffer.  data holds the units [0, offset) of this._buffer, so      *)
(* Len(data) is this._offset; outs is the list of chunks pushed to outs.   *)

BufferSize == 4096

NewWriteBuffer(size) == [data |-> << >>, size |-> size, outs |-> << >>]

flush(b) ==
    [b EXCEPT !.outs = IF Len(b.data) > 0 THEN Append(b.outs, b.data) ELSE b.outs,
              !.data = << >>]

\* Storing into a Buffer keeps the low eight bits of the value.
writeChar(b, ch) ==
    LET b1 == IF Len(b.data) >= b.size THEN flush(b) ELSE b
    IN  [b1 EXCEPT !.data = Append(b1.data, ch % 256)]

RECURSIVE writeChunkFrom(_, _, _)
\* The loop of writeChunk from index i on.  The buffer after each writeChar
\* is bound as a value before the loop goes on.
writeChunkFrom(b, chunk, i) ==
    IF i > Len(chunk) THEN b
    ELSE With(writeChar(b, chunk[i]), LAMBDA b1 : writeChunkFrom(b1, chunk, i + 1))

writeChunk(b, chunk) == writeChunkFrom(b, chunk, 1)

\* Every unit written so far, pushed or pending.
Written(b) == Concat(b.outs) \o b.data

\* Every unit pushed downstream so far.
Emitted == Concat(buffer.outs)

----------------------------------------------------------------------------
(* Names and literals of the source.                                       *)

N_base     == U(<< "b", "a", "s", "e" >>)
N_link     == U(<< "l", "i", "n", "k" >>)
N_a        == U(<< "a" >>)
N_source   == U(<< "s", "o", "u", "r", "c", "e" >>)
N_img      == U(<< "i", "m", "g" >>)
N_iframe   == U(<< "i", "f", "r", "a", "m", "e" >>)
N_embed    == U(<< "e", "m", "b", "e", "d" >>)
N_video    == U(<< "v", "i", "d", "e", "o" >>)
N_audio    == U(<< "a", "u", "d", "i", "o" >>)
N_track    == U(<< "t", "r", "a", "c", "k" >>)
N_script   == U(<< "s", "c", "r", "i", "p", "t" >>)
N_star     == U(<< "*" >>)
N_href     == U(<< "h", "r", "e", "f" >>)
N_target   == U(<< "t", "a", "r", "g", "e", "t" >>)
N_src      == U(<< "s", "r", "c" >>)
N_srcset   == U(<< "s", "r", "c", "s", "e", "t" >>)
N_style    == U(<< "s", "t", "y", "l", "e" >>)

DOCTYPE      == U(<< "!", "d", "o", "c", "t", "y", "p", "e", "h", "t", "m", "l" >>)
CommentStart == U(<< "!", "-", "-" >>)
ScriptEnd    == U(<< "/", "s", "c", "r", "i", "p", "t" >>)
UrlOpen      == U(<< "u", "r", "l", "(" >>)
CommaSpace   == U(<< ",", " " >>)

\* Property names every JavaScript object inherits from Object.prototype.
N_constructor == U(<< "c", "o", "n", "s", "t", "r", "u", "c", "t", "o", "r" >>)
N_proto       == U(<< "_", "_", "p", "r", "o", "t", "o", "_", "_" >>)
N_toString    == U(<< "t", "o", "S", "t", "r", "i", "n", "g" >>)
N_valueOf     == U(<< "v", "a", "l", "u", "e", "O", "f" >>)
N_name        == U(<< "n", "a", "m", "e" >>)
N_length      == U(<< "l", "e", "n", "g", "t", "h" >>)
N_prototype   == U(<< "p", "r", "o", "t", "o", "t", "y", "p", "e" >>)

----------------------------------------------------------------------------
(* The rewrite strategies.  Each returns the buffer after its writes.      *)

writeValue(v, b) == writeChunk(b, v.attrValue)

\* prefixValue without the test of the second unit.
prefixValue_anySlash(v, b) ==
    LET value == v.attrValue
        b1 == IF value # << >> /\ value[1] = Chars.Slash
              THEN writeChunk(b, v.prefix) ELSE b
    IN  writeChunk(b1, value)

prefixValue(v, b) ==
    LET value == v.attrValue
        at(i) == IF i <= Len(value) THEN value[i] ELSE UndefUnit
        b1 == IF at(1) = Chars.Slash /\ at(2) # Chars.Slash
              THEN writeChunk(b, v.prefix) ELSE b
    IN  writeChunk(b1, value)

\* The map callback of prefixSrcSetValues.
srcSetCandidate(v, c) ==
    LET t == trim(c)
    IN  IF t # << >> /\ t[1] = Chars.Slash THEN v.prefix \o t ELSE t

prefixSrcSetValues(v, b) ==
    LET parts  == split(str(v.attrValue), Ord(","))
        mapped == [i \in 1..Len(parts) |-> srcSetCandidate(v, parts[i])]
    IN  writeChunk(b, join(mapped, CommaSpace))

\* Word characters of the regex assertion \b.
isWordChar(u) ==
    \/ (u >= 48 /\ u <= 57)
    \/ (u >= 65 /\ u <= 90)
    \/ (u >= 97 /\ u <= 122)
    \/ u = 95

RECURSIVE replaceCSSURL(_, _, _)
\* value.replace( /\burl\((\s*)\/([^\/])/g, `url($1${prefix}/$2` ), scanning
\* from index i; k is where the \s* after `url(` ends.  The prefixes of the
\* model hold no `$`.
replaceCSSURL(s, prefix, i) ==
    IF i > Len(s) THEN << >>
    ELSE With(firstNonSpace(s, i + 4), LAMBDA k :
             IF /\ i + 3 <= Len(s)
                /\ SubSeq(s, i, i + 3) = UrlOpen
                /\ (i = 1 \/ ~isWordChar(s[i - 1]))
                /\ k + 1 <= Len(s)
                /\ s[k] = Chars.Slash
                /\ s[k + 1] # Chars.Slash
             THEN UrlOpen \o SubSeq(s, i + 4, k - 1) \o prefix
                    \o << Chars.Slash, s[k + 1] >> \o replaceCSSURL(s, prefix, k + 2)
             ELSE << s[i] >> \o replaceCSSURL(s, prefix, i + 1))

prefixCSSURLValues(v, b) ==
    writeChunk(b, replaceCSSURL(str(v.attrValue), v.prefix, 1))

endOfTagCheck(ch, v, continueState) ==
    IF ch = Chars.Slash THEN "writethrough"
    ELSE IF ch = Chars.Gt THEN
        IF v.tagName = N_script THEN "find-script-end" ELSE "writethrough"
    ELSE continueState

----------------------------------------------------------------------------
(* RewriteTags, and JavaScript property lookup on it.                      *)

RewriteTags ==
    (N_base   :> ((N_href :> "prefixValue") @@ (N_target :> "prefixValue"))) @@
    (N_link   :> ((N_href :> "prefixValue") @@ (N_style :> "prefixCSSURLValues"))) @@
    (N_a      :> ((N_href :> "prefixValue") @@ (N_style :> "prefixCSSURLValues"))) @@
    (N_source :> ((N_src :> "prefixValue") @@ (N_srcset :> "prefixSrcSetValues"))) @@
    (N_img    :> ((N_src :> "prefixValue") @@ (N_srcset :> "prefixSrcSetValues")
                    @@ (N_style :> "prefixCSSURLValues"))) @@
    (N_iframe :> ((N_src :> "prefixValue") @@ (N_style :> "prefixCSSURLValues"))) @@
    (N_embed  :> ((N_src :> "prefixValue") @@ (N_style :> "prefixCSSURLValues"))) @@
    (N_video  :> ((N_src :> "prefixValue") @@ (N_style :> "prefixCSSURLValues"))) @@
    (N_audio  :> ((N_src :> "prefixValue") @@ (N_style :> "prefixCSSURLValues"))) @@
    (N_track  :> ((N_src :> "prefixValue") @@ (N_style :> "prefixCSSURLValues"))) @@
    (N_script :> (N_src :> "prefixValue")) @@
    (N_star   :> (N_style :> "prefixCSSURLValues"))

\* Values a lookup can find on the prototype chain instead of a table.
ObjectCtor  == << -3 >>     \* the function Object (Object.prototype.constructor)
ObjectProto == << -4 >>     \* the object Object.prototype (__proto__)

\* RewriteTags[tagName] || RewriteTags['*'].  A lower-case name that is no
\* own key can still name an inherited property: constructor, __proto__.
lookupTag(tagName) ==
    IF tagName \in DOMAIN RewriteTags THEN tagName
    ELSE IF tagName = N_constructor THEN ObjectCtor
    ELSE IF tagName = N_proto THEN ObjectProto
    ELSE N_star

\* vars.attrs[attrName] || writeValue, as the name of what the call does:
\* a strategy, "noop" (an inherited function that writes nothing when called
\* with (vars, buffer)), "notcallable" (the call raises a TypeError) or
\* "Function" (the function constructor, which raises a SyntaxError on these
\* arguments).  On a table, names are looked up on Object.prototype; on the
\* function Object, on it and on Function.prototype (whose toString raises
\* a TypeError on a `this` that is no function); Object.prototype.__proto__
\* is null.  Of the static methods of Object no name is among the inputs.
lookupAttr(attrs, attrName) ==
    IF attrs \in DOMAIN RewriteTags /\ attrName \in DOMAIN RewriteTags[attrs]
        THEN RewriteTags[attrs][attrName]
    ELSE IF attrs = ObjectCtor THEN
        CASE attrName \in {N_name, N_length, N_prototype, N_toString} -> "notcallable"
          [] attrName = N_constructor -> "Function"
          [] attrName \in {N_proto, N_valueOf} -> "noop"
          [] OTHER -> "writeValue"
    ELSE IF attrName = N_proto
        THEN IF attrs = ObjectProto THEN "writeValue" ELSE "notcallable"
    ELSE IF attrName \in {N_constructor, N_toString, N_valueOf} THEN "noop"
    ELSE "writeValue"

\* vars.writeAttr( vars, buffer ).
callWriteAttr(v, b) ==
    CASE v.writeAttr = "writeValue"         -> [buffer |-> writeValue(v, b), err |-> "none"]
      [] v.writeAttr = "prefixValue"        -> [buffer |-> prefixValue(v, b), err |-> "none"]
      [] v.writeAttr = "prefixSrcSetValues" -> [buffer |-> prefixSrcSetValues(v, b), err |-> "none"]
      [] v.writeAttr = "prefixCSSURLValues" -> [buffer |-> prefixCSSURLValues(v, b), err |-> "none"]
      [] v.writeAttr = "noop"               -> [buffer |-> b, err |-> "none"]
      [] v.writeAttr = "Function"           -> [buffer |-> b, err |-> "SyntaxError"]
      [] OTHER                              -> [buffer |-> b, err |-> "TypeError"]

----------------------------------------------------------------------------
(* The state table SM.  A step returns the next state (or "undefined"),    *)
(* the parse context and the buffer as the step left them, and the error  *)
(* it raised, if any.                                                      *)

R(next, v, b) == [next |-> next, vars |-> v, buffer |-> b, err |-> "none"]

SM_find_doctype(ch, b0, v) ==
    LET b == writeChar(b0, ch)
    IN  IF isWhitespace(ch) THEN R("find-doctype", v, b)
        ELSE IF ch = Chars.Lt THEN R("read-doctype", [v EXCEPT !.doctype = << >>], b)
        ELSE R("writethrough-to-end", v, b)

\* read-doctype going on to writethrough whatever the doctype read.
SM_read_doctype_anyDoctype(ch, b0, v) ==
    LET b == writeChar(b0, ch)
    IN  IF ch = Chars.Gt THEN R("writethrough", [v EXCEPT !.doctype = Undefined], b)
        ELSE
            LET d == IF ~isWhitespace(ch) THEN Append(v.doctype, ch) ELSE v.doctype
            IN  IF Len(d) > Len(DOCTYPE)
                THEN R("writethrough-to-end", [v EXCEPT !.doctype = Undefined], b)
                ELSE R("read-doctype", [v EXCEPT !.doctype = d], b)

\* read-doctype giving up when the doctype buffer reaches the length of
\* DOCTYPE instead of when it goes beyond it.
SM_read_doctype_lengthOffByOne(ch, b0, v) ==
    LET b == writeChar(b0, ch)
    IN  IF ch = Chars.Gt THEN
            LET doctype == toLowerCase(str(v.doctype))
                v1 == [v EXCEPT !.doctype = Undefined]
            IN  IF doctype = DOCTYPE THEN R("writethrough", v1, b)
                ELSE R("writethrough-to-end", v1, b)
        ELSE
            LET d == IF ~isWhitespace(ch) THEN Append(v.doctype, ch) ELSE v.doctype
            IN  IF Len(d) >= Len(DOCTYPE)
                THEN R("writethrough-to-end", [v EXCEPT !.doctype = Undefined], b)
                ELSE R("read-doctype", [v EXCEPT !.doctype = d], b)

SM_read_doctype(ch, b0, v) ==
    LET b == writeChar(b0, ch)
    IN  IF ch = Chars.Gt THEN
            LET doctype == toLowerCase(str(v.doctype))
                v1 == [v EXCEPT !.doctype = Undefined]
            IN  IF doctype = DOCTYPE THEN R("writethrough", v1, b)
                ELSE R("writethrough-to-end", v1, b)
        ELSE
            LET d == IF ~isWhitespace(ch) THEN Append(v.doctype, ch) ELSE v.doctype
            IN  IF Len(d) > Len(DOCTYPE)
                THEN R("writethrough-to-end", [v EXCEPT !.doctype = Undefined], b)
                ELSE R("read-doctype", [v EXCEPT !.doctype = d], b)

SM_writethrough(ch, b0, v) ==
    LET b == writeChar(b0, ch)
    IN  IF ch = Chars.Lt THEN R("read-tag-name", [v EXCEPT !.tagName = << >>], b)
        ELSE R("writethrough", v, b)

\* writethrough-to-end looking for tags as writethrough does.
SM_writethrough_to_end_rescans(ch, b0, v) ==
    LET b == writeChar(b0, ch)
    IN  IF ch = Chars.Lt THEN R("read-tag-name", [v EXCEPT !.tagName = << >>], b)
        ELSE R("writethrough-to-end", v, b)

SM_writethrough_to_end(ch, b0, v) == R("writethrough-to-end", v, writeChar(b0, ch))

SM_read_tag_name(ch, b0, v) ==
    LET b == writeChar(b0, ch)
    IN  IF isTagChar(ch)
        THEN R("read-tag-name", [v EXCEPT !.tagName = Append(v.tagName, ch)], b)
        ELSE
            LET tagName == toLowerCase(str(v.tagName))
                v1 == [v EXCEPT !.tagName = tagName]
                attrs == lookupTag(tagName)
            IN  IF tagName = CommentStart
                THEN R("find-comment-end", [v1 EXCEPT !.cbuff = << >>], b)
                ELSE IF attrs # Undefined
                THEN R(endOfTagCheck(ch, v1, "find-attr-name-start"),
                       [v1 EXCEPT !.attrs = attrs], b)
                ELSE R("undefined", v1, b)

SM_find_attr_name_start(ch, b0, v) ==
    LET b == writeChar(b0, ch)
    IN  IF isNameChar(ch) THEN R("read-attr-name", [v EXCEPT !.attrName = << ch >>], b)
        ELSE R(endOfTagCheck(ch, v, "find-attr-name-start"), v, b)

SM_read_attr_name(ch, b0, v) ==
    LET b == writeChar(b0, ch)
    IN  IF isNameChar(ch)
        THEN R("read-attr-name", [v EXCEPT !.attrName = Append(v.attrName, ch)], b)
        ELSE
            LET attrName == str(v.attrName)
                v1 == [v EXCEPT !.writeAttr = lookupAttr(v.attrs, attrName)]
            IN  IF ch = Chars.Eq THEN R("find-attr-value-start", v1, b)
                ELSE R("find-attr-equals", v1, b)

SM_find_attr_equals(ch, b0, v) ==
    LET b == writeChar(b0, ch)
    IN  IF ch = Chars.Eq THEN R("find-attr-value-start", v, b)
        ELSE IF isNameChar(ch)
        THEN R("read-attr-name", [v EXCEPT !.attrName = << ch >>], b)
        ELSE R(endOfTagCheck(ch, v, "find-attr-equals"), v, b)

SM_find_attr_value_start(ch, b0, v) ==
    IF ch = Chars.DQuote \/ ch = Chars.SQuote
    THEN R("find-attr-value-end-quote",
           [v EXCEPT !.endQuote = ch, !.attrValue = << >>], writeChar(b0, ch))
    ELSE IF isNonWhitespace(ch)
    THEN R("find-attr-value-end-no-quote", [v EXCEPT !.attrValue = << ch >>], b0)
    ELSE R("find-attr-value-start", v, b0)

\* The shared body of the two value-end states once the terminator is read.
endOfValue(ch, b0, v, next) ==
    LET w == callWriteAttr(v, b0)
    IN  IF w.err # "none"
        THEN [next |-> "undefined", vars |-> v, buffer |-> w.buffer, err |-> w.err]
        ELSE R(next, [v EXCEPT !.attrValue = False], writeChar(w.buffer, ch))

SM_find_attr_value_end_quote(ch, b0, v) ==
    IF ch = v.endQuote THEN endOfValue(ch, b0, v, "find-attr-name-start")
    ELSE IF ch = Chars.Gt
    THEN endOfValue(ch, b0, v, endOfTagCheck(ch, v, "writethrough"))
    ELSE R("find-attr-value-end-quote",
           [v EXCEPT !.attrValue = Append(v.attrValue, ch)], b0)

SM_find_attr_value_end_no_quote(ch, b0, v) ==
    IF isWhitespace(ch) THEN endOfValue(ch, b0, v, "find-attr-name-start")
    ELSE IF ch = Chars.Gt
    THEN endOfValue(ch, b0, v, endOfTagCheck(ch, v, "writethrough"))
    ELSE R("find-attr-value-end-no-quote",
           [v EXCEPT !.attrValue = Append(v.attrValue, ch)], b0)

SM_find_tag_end(ch, b0, v) ==
    R(endOfTagCheck(ch, v, "find-tag-end"), v, writeChar(b0, ch))

SM_find_script_end(ch, b0, v) ==
    LET b == writeChar(b0, ch)
    IN  IF ch = Chars.Lt THEN R("find-script-end", [v EXCEPT !.currentTag = << >>], b)
        ELSE IF Truthy(v.currentTag) THEN
            IF ch = Chars.Slash \/ isNameChar(ch)
            THEN R("find-script-end",
                   [v EXCEPT !.currentTag = Append(v.currentTag, ch)], b)
            ELSE IF str(v.currentTag) = ScriptEnd THEN R("writethrough", v, b)
            ELSE R("find-script-end", [v EXCEPT !.currentTag = Undefined], b)
        ELSE R("find-script-end", v, b)

\* find-comment-end with a window of two units, so that -> ends the
\* comment.
SM_find_comment_end_twoUnits(ch, b0, v) ==
    LET b == writeChar(b0, ch)
        at(i) == IF i <= Len(v.cbuff) THEN v.cbuff[i] ELSE UndefUnit
        cbuff == << at(2), at(3), ch >>
        v1 == [v EXCEPT !.cbuff = cbuff]
    IN  IF cbuff[2] = Chars.Dash /\ cbuff[3] = Chars.Gt
        THEN R("writethrough", v1, b)
        ELSE R("find-comment-end", v1, b)

SM_find_comment_end(ch, b0, v) ==
    LET b == writeChar(b0, ch)
        at(i) == IF i <= Len(v.cbuff) THEN v.cbuff[i] ELSE UndefUnit
        cbuff == << at(2), at(3), ch >>
        v1 == [v EXCEPT !.cbuff = cbuff]
    IN  IF cbuff[1] = Chars.Dash /\ cbuff[2] = Chars.Dash /\ cbuff[3] = Chars.Gt
        THEN R("writethrough", v1, b)
        ELSE R("find-comment-end", v1, b)

\* The keys of SM.
SMKeys ==
    { "find-doctype", "read-doctype", "writethrough", "writethrough-to-end",
      "read-tag-name", "find-attr-name-start", "read-attr-name",
      "find-attr-equals", "find-attr-value-start", "find-attr-value-end-quote",
      "find-attr-value-end-no-quote", "find-tag-end", "find-script-end",
      "find-comment-end" }

\* SM[st]( ch, buffer, vars ).
SM(st, ch, b, v) ==
    CASE st = "find-doctype"                 -> SM_find_doctype(ch, b, v)
      [] st = "read-doctype"                 -> SM_read_doctype(ch, b, v)
      [] st = "writethrough"                 -> SM_writethrough(ch, b, v)
      [] st = "writethrough-to-end"          -> SM_writethrough_to_end(ch, b, v)
      [] st = "read-tag-name"                -> SM_read_tag_name(ch, b, v)
      [] st = "find-attr-name-start"         -> SM_find_attr_name_start(ch, b, v)
      [] st = "read-attr-name"               -> SM_read_attr_name(ch, b, v)
      [] st = "find-attr-equals"             -> SM_find_attr_equals(ch, b, v)
      [] st = "find-attr-value-start"        -> SM_find_attr_value_start(ch, b, v)
      [] st = "find-attr-value-end-quote"    -> SM_find_attr_value_end_quote(ch, b, v)
      [] st = "find-attr-value-end-no-quote" -> SM_find_attr_value_end_no_quote(ch, b, v)
      [] st = "find-tag-end"                 -> SM_find_tag_end(ch, b, v)
      [] st = "find-script-end"              -> SM_find_script_end(ch, b, v)
      [] st = "find-comment-end"             -> SM_find_comment_end(ch, b, v)

----------------------------------------------------------------------------
(* HTMLTransformer.                                                        *)

\* The constructor's handling of its prefix argument.
stripPrefix(prefix) ==
    IF prefix # << >> /\ prefix[Len(prefix)] = Chars.Slash
    THEN SubSeq(prefix, 1, Len(prefix) - 1) ELSE prefix

\* this._vars = { prefix }: every other field is undefined.
NewVars(prefix) ==
    [ prefix |-> prefix, doctype |-> Undefined, tagName |-> Undefined,
      attrs |-> Undefined, attrName |-> Undefined, writeAttr |-> "undefined",
      endQuote |-> UndefUnit, attrValue |-> Undefined, currentTag |-> Undefined,
      cbuff |-> Undefined ]

RECURSIVE transformLoop(_, _, _, _, _)
\* The for loop of _transform from unit i of the chunk on.  An error leaves
\* err set; the parse context and buffer keep what the failing step did.
transformLoop(st, b, v, chunk, i) ==
    IF i > Len(chunk) THEN [state |-> st, buffer |-> b, vars |-> v, err |-> "none"]
    ELSE With(SM(st, chunk[i], b, v), LAMBDA r :
             IF r.err # "none"
             THEN [state |-> st, buffer |-> r.buffer, vars |-> r.vars, err |-> r.err]
             ELSE IF r.next \notin SMKeys
             THEN [state |-> st, buffer |-> r.buffer, vars |-> r.vars,
                   err |-> "Bad parser state transition"]
             ELSE transformLoop(r.next, r.buffer, r.vars, chunk, i + 1))

\* _flush handing the dangling value to the attribute's strategy.
flushTransformer_rewrites(v, b) ==
    flush(IF Truthy(v.attrValue) THEN callWriteAttr(v, b).buffer ELSE b)

\* _flush: the buffer after the dangling value and the final flush.
flushTransformer(v, b) ==
    flush(IF Truthy(v.attrValue) THEN writeChunk(b, v.attrValue) ELSE b)

----------------------------------------------------------------------------
(* The caller: what it constructs the transformer with and what it writes. *)

MaxChunks     == 5      \* _transform calls per stream
MaxValueFrags == 4      \* fragments per attribute value handed to a strategy

\* Prefix arguments given to the constructor.
PrefixArgs == { << >>, U(<< "/", "p", "/" >>) }

DoctypeHtml == U(<< "<", "!", "D", "O", "C", "T", "Y", "P", "E", " ", "h", "t", "m", "l", ">" >>)

C_a        == U(<< "<", "a" >>)
C_aopen    == U(<< "<", "a", " ", "h", "r", "e", "f", "=" >>)
C_href     == U(<< " ", "h", "r", "e", "f", "=" >>)
C_quote    == U(<< "\"" >>)
C_x        == U(<< "/", "x" >>)
C_gt       == U(<< ">" >>)
C_space    == U(<< " " >>)
C_phidden  == U(<< "<", "p", " ", "h", "i", "d", "d", "e", "n", ">" >>)
C_proto    == U(<< " ", "_", "_", "p", "r", "o", "t", "o", "_", "_", "=" >>)
C_ahref    == U(<< "<", "a", " ", "h", "r", "e", "f", "=", "\"", "/", "x", "\"", ">" >>)
C_sahref   == C_space \o C_ahref
C_script   == U(<< "<", "s", "c", "r", "i", "p", "t", ">" >>)
C_scriptA  == U(<< "<", "s", "c", "r", "i", "p", "t", " ", "a", "s", "y", "n", "c", ">" >>)
C_empty    == C_script \o U(<< "<", "/", "s", "c", "r", "i", "p", "t", ">" >>)
C_endscr   == U(<< "<", "/", "s", "c", "r", "i", "p", "t", ">" >>)
C_lt       == U(<< "<" >>)
C_letter   == U(<< "x" >>)
C_comment  == U(<< "<", "!", "-", "-" >>)
C_endcom   == U(<< "-", "-", ">" >>)
C_dash     == U(<< "-" >>)
C_wholecom == C_comment \o U(<< " ", "-", "-", ">" >>)
C_style    == U(<< " ", "s", "t", "y", "l", "e", "=", "\"", "u", "r", "l", "(", "/", "x", ")", "\"" >>)
C_html     == U(<< " ", "h", "t", "m", "l" >>)
C_base     == U(<< "<", "b", "a", "s", "e" >>)
C_p        == U(<< "<", "p" >>)
C_ctor     == U(<< "<" >>) \o N_constructor
K_none     == << >>
K_doc1     == U(<< "<", "!", "D", "O", "C" >>)
K_doc2     == U(<< "T", "Y", "P", "E", " ", "h", "t", "m", "l", ">" >>)
K_a1       == U(<< "<", "a", " ", "h", "r", "e", "f", "=", "\"", "/" >>)
K_a2       == U(<< "x", "\"", ">" >>)
K_scr1     == U(<< "<", "s", "c", "r" >>)
K_scr2     == U(<< "i", "p", "t", ">" >>)
K_end1     == U(<< "<", "/", "s", "c", "r" >>)
K_com1     == U(<< "<", "!", "-", "-", " ", "x", "-" >>)
K_com2     == U(<< "-", ">" >>)
V_eacute   == << 195, 169 >>       \* the two bytes of U+00E9 in UTF-8
C_imgset   == U(<< "<", "i", "m", "g", " ", "s", "r", "c", "s", "e", "t", "=", "\"" >>)
C_pstyle   == U(<< "<", "p", " ", "s", "t", "y", "l", "e", "=", "\"" >>)
C_imgsrc   == U(<< "<", "i", "m", "g", " ", "s", "r", "c", "=", "\"", "/", "x", "\"", ">" >>)
C_Ahref    == U(<< "<", "A", " ", "h", "r", "e", "f", "=", "\"", "/", "x", "\"", ">" >>)
C_AHREF    == U(<< "<", "A", " ", "H", "R", "E", "F", "=", "\"", "/", "x", "\"", ">" >>)
C_IMGSRC   == U(<< "<", "I", "M", "G", " ", "S", "R", "C", "=", "\"", "/", "x", "\"", ">" >>)
D_open     == DoctypeHtml \o K_a1
H_lower    == U(<< "<", "!", "d", "o", "c", "t", "y", "p", "e", " ", "h", "t", "m", "l" >>)
H_mixed    == U(<< " ", "<", "!", "D", "o", "c", "T", "y", "p", "e" >>)
H_htmltag  == U(<< "<", "h", "t", "m", "l", ">" >>)
H_long     == U(<< "<", "!", "D", "O", "C", "T", "Y", "P", "E", " ", "h", "t", "m", "l", "s" >>)

\* The first chunk a caller of the profile writes.
Heads(p) ==
    IF p = "gate"
    THEN { DoctypeHtml, H_lower, H_mixed, H_htmltag, H_long, C_letter, C_lt }
    ELSE IF p = "chunks" THEN { K_doc1 }
    ELSE IF p = "two" THEN { D_open }
    ELSE { DoctypeHtml }

\* The chunks it writes after the first.
Body(p) ==
    CASE p = "attrs"   -> { C_a, C_href, C_aopen, C_quote, C_x, C_gt, C_space,
                            C_phidden, C_proto }
      [] p = "script"  -> { C_script, C_scriptA, C_endscr, C_empty, C_sahref, C_space,
                            C_letter, C_lt, C_gt }
      [] p = "comment" -> { C_comment, C_endcom, C_style, C_space, C_letter, C_dash,
                            C_gt,
                            C_wholecom }
      [] p = "gate"    -> { C_gt, C_html, C_ahref, C_space, V_eacute }
      [] p = "chunks"  -> { K_none, K_doc2, K_a1, K_a2, K_scr1, K_scr2, K_end1,
                            K_com1, K_com2 }
      [] p = "two"     -> { K_a2, C_letter, C_space }
      [] p = "bytes"   -> { V_eacute, C_imgset, C_pstyle, C_aopen, C_quote, C_gt,
                            C_letter }
      [] p = "case"    -> { C_ahref, C_imgsrc, C_Ahref, C_AHREF, C_IMGSRC, C_space }
      [] p = "tables"  -> { C_a, C_base, C_p, C_ctor, C_style, C_href, C_proto,
                            C_x, C_gt, C_space }
      [] OTHER         -> { }

NextChunks == IF input = << >> THEN Heads(profile) ELSE Body(profile)

\* No second instance, no activation of makeFileRecords.
NoPeer == [pc |-> "none"]
NoCall == [pc |-> "none"]

\* The prefix argument of the second instance.
PeerPrefix == U(<< "/", "q", "/" >>)

\* new HTMLTransformer( prefix, outs ) once more: fields of its own.
NewPeer(prefix) ==
    [ state |-> "find-doctype", vars |-> NewVars(stripPrefix(prefix)),
      buffer |-> NewWriteBuffer(BufferSize), input |-> << >>, pc |-> "open",
      thrown |-> "none" ]

\* new HTMLTransformer( prefix, outs ), written to by a caller of profile p.
InitTransformer(p) ==
    /\ profile = p
    /\ peer = (IF p = "two" THEN NewPeer(PeerPrefix) ELSE NoPeer)
    /\ call = NoCall
    /\ \E prefix \in PrefixArgs : vars = NewVars(stripPrefix(prefix))
    /\ state = "find-doctype"
    /\ buffer = NewWriteBuffer(BufferSize)
    /\ input = << >>
    /\ nchunks = 0
    /\ pc = "open"
    /\ awaiting = "none"
    /\ thrown = "none"

Init == InitTransformer("attrs")
InitScript == InitTransformer("script")
InitComment == InitTransformer("comment")
InitGate == InitTransformer("gate")
InitTables == InitTransformer("tables")
InitChunks == InitTransformer("chunks")
InitTwo == InitTransformer("two")
InitBytes == InitTransformer("bytes")
InitCase == InitTransformer("case")

\* _transform without its assignment to this._state.
Transform_forgetsState(chunk) ==
    /\ pc = "open"
    /\ thrown = "none"
    /\ nchunks < MaxChunks
    /\ LET r == transformLoop(state, buffer, vars, chunk, 1)
       IN  /\ vars' = r.vars
           /\ buffer' = r.buffer
           /\ thrown' = r.err
           /\ awaiting' = IF r.err = "none" THEN "none" ELSE "transform"
    /\ input' = input \o chunk
    /\ nchunks' = nchunks + 1
    /\ UNCHANGED <<state, pc, profile, peer, call>>

\* write( chunk ): Node calls _transform( chunk, encoding, callback ).  The
\* callback is invoked on the last line, so not when a step raised.
Transform(chunk) ==
    /\ pc = "open"
    /\ thrown = "none"
    /\ nchunks < MaxChunks
    /\ LET r == transformLoop(state, buffer, vars, chunk, 1)
       IN  /\ state' = IF r.err = "none" THEN r.state ELSE state
           /\ vars' = r.vars
           /\ buffer' = r.buffer
           /\ thrown' = r.err
           /\ awaiting' = IF r.err = "none" THEN "none" ELSE "transform"
    /\ input' = input \o chunk
    /\ nchunks' = nchunks + 1
    /\ UNCHANGED <<pc, profile, peer, call>>

\* end(): Node calls _flush( callback ), which returns without invoking it.
Flush ==
    /\ pc = "open"
    /\ thrown = "none"
    /\ buffer' = flushTransformer(vars, buffer)
    /\ pc' = "flushed"
    /\ awaiting' = "flush"
    /\ UNCHANGED <<state, vars, input, nchunks, thrown, profile, peer, call>>

Next ==
    \/ \E chunk \in NextChunks : Transform(chunk)
    \/ Flush

Spec        == Init /\ [][Next]_allvars
SpecScript  == InitScript /\ [][Next]_allvars
SpecComment == InitComment /\ [][Next]_allvars
SpecGate    == InitGate /\ [][Next]_allvars
SpecTables  == InitTables /\ [][Next]_allvars
SpecChunks  == InitChunks /\ [][Next]_allvars
SpecBytes   == InitBytes /\ [][Next]_allvars
SpecCase    == InitCase /\ [][Next]_allvars

\* The chunks the caller of the second instance writes.
PeerChunks == IF peer.input = << >> THEN Heads(profile) ELSE Body(profile)

\* _transform of the second instance working on the parse context of the
\* first, as if the parse context were shared by the instances.
PeerTransform_sharedVars(chunk) ==
    /\ peer.pc = "open"
    /\ peer.thrown = "none"
    /\ nchunks < MaxChunks
    /\ LET r == transformLoop(peer.state, peer.buffer, vars, chunk, 1)
       IN  /\ peer' = [peer EXCEPT !.state = IF r.err = "none" THEN r.state ELSE @,
                                   !.vars = r.vars,
                                   !.buffer = r.buffer,
                                   !.thrown = r.err,
                                   !.input = @ \o chunk]
           /\ vars' = r.vars
    /\ nchunks' = nchunks + 1
    /\ UNCHANGED <<state, buffer, input, pc, awaiting, thrown, profile, call>>

\* write( chunk ) on the second instance: its _transform, on its own fields.
PeerTransform(chunk) ==
    /\ peer.pc = "open"
    /\ peer.thrown = "none"
    /\ nchunks < MaxChunks
    /\ LET r == transformLoop(peer.state, peer.buffer, peer.vars, chunk, 1)
       IN  peer' = [peer EXCEPT !.state = IF r.err = "none" THEN r.state ELSE @,
                                !.vars = r.vars,
                                !.buffer = r.buffer,
                                !.thrown = r.err,
                                !.input = @ \o chunk]
    /\ nchunks' = nchunks + 1
    /\ UNCHANGED <<state, vars, buffer, input, pc, awaiting, thrown, profile, call>>

\* end() on the second instance: its _flush.
PeerFlush ==
    /\ peer.pc = "open"
    /\ peer.thrown = "none"
    /\ peer' = [peer EXCEPT !.buffer = flushTransformer(peer.vars, peer.buffer),
                            !.pc = "flushed"]
    /\ UNCHANGED <<state, vars, buffer, input, nchunks, pc, awaiting, thrown,
                   profile, call>>

\* Two instances, their callers' writes and ends interleaved in any order.
NextTwo ==
    \/ \E chunk \in NextChunks : Transform(chunk)
    \/ Flush
    \/ \E chunk \in PeerChunks : PeerTransform(chunk)
    \/ PeerFlush

SpecTwo == InitTwo /\ [][NextTwo]_allvars

----------------------------------------------------------------------------
(* A harness for the rewrite strategies: one call of a strategy on a      *)
(* parse context holding an attribute value, into an empty buffer.        *)

ValueFrags ==
    { U(<< "/" >>), U(<< "x" >>), U(<< "," >>), U(<< " " >>), UrlOpen, V_eacute }

SeqsUpTo(S, n) == UNION { [1..k -> S] : k \in 0..n }

Values == { Concat(fs) : fs \in SeqsUpTo(ValueFrags, MaxValueFrags) }

Strategies == { "writeValue", "prefixValue", "prefixSrcSetValues", "prefixCSSURLValues" }

InitStrategy ==
    /\ profile = "strategy"
    /\ peer = NoPeer
    /\ call = NoCall
    /\ \E prefix \in PrefixArgs, value \in Values :
          vars = [NewVars(stripPrefix(prefix)) EXCEPT !.attrValue = value]
    /\ state = "find-attr-value-end-quote"
    /\ buffer = NewWriteBuffer(BufferSize)
    /\ input = << >>
    /\ nchunks = 0
    /\ pc = "call"
    /\ awaiting = "none"
    /\ thrown = "none"

CallStrategy(s) ==
    /\ pc = "call"
    /\ LET v == [vars EXCEPT !.writeAttr = s]
           w == callWriteAttr(v, buffer)
       IN  /\ vars' = v
           /\ buffer' = w.buffer
           /\ thrown' = w.err
    /\ pc' = "returned"
    /\ UNCHANGED <<state, input, nchunks, awaiting, profile, peer, call>>

NextStrategy == \E s \in Strategies : CallStrategy(s)

SpecStrategy == InitStrategy /\ [][NextStrategy]_allvars

----------------------------------------------------------------------------
(* makeFileRecords.  The filesets are those the definitions of init()      *)
(* describe; a path belongs to a fileset by the globs of the definition,   *)
(* given here for the paths the callers of the model pass.                 *)

MaxPaths == 3       \* paths per call of makeFileRecords

Paths ==
    { "sw.js", "_server/a.js", "index.html", "data.json", "a.png",
      "locomote.json", "_locomote/a.txt" }

\* The paths among Paths that each glob of the definitions matches.
Glob ==
    ("pwa/**/*" :> { }) @@
    ("sw.js" :> { "sw.js" }) @@
    ("manifest.webmanifest" :> { }) @@
    ("_server/**/*" :> { "_server/a.js" }) @@
    ("**/*.html" :> { "index.html" }) @@
    ("**/*.json" :> { "data.json", "locomote.json" }) @@
    ("locomote.json" :> { "locomote.json" }) @@
    ("_locomote/**/*" :> { "_locomote/a.txt" }) @@
    ("**/*" :> Paths)

DefaultFilesets ==
    << [ category |-> "app", processor |-> "FilesetProcessor",
         includes |-> { "pwa/**/*", "sw.js", "manifest.webmanifest" },
         excludes |-> { } ],
       [ category |-> "server", processor |-> "FilesetProcessor",
         includes |-> { "_server/**/*" }, excludes |-> { } ],
       [ category |-> "pages", processor |-> "RelocatablePageFSP",
         includes |-> { "**/*.html" }, excludes |-> { } ],
       [ category |-> "json", processor |-> "JSONDataFSP",
         includes |-> { "**/*.json" },
         excludes |-> { "locomote.json", "_locomote/**/*" } ],
       [ category |-> "files", processor |-> "FilesetProcessor",
         includes |-> { "**/*" },
         excludes |-> { "locomote.json", "_locomote/**/*" } ] >>

\* Fileset.contains: the includes less the excludes.
contains(fileset, path) ==
    /\ \E g \in fileset.includes : path \in Glob[g]
    /\ ~\E g \in fileset.excludes : path \in Glob[g]

\* getFilesetForPath: the index of the first fileset, in priority order,
\* that contains the path; 0 for the undefined that find returns if none.
getFilesetForPath(filesets, path) ==
    LET hits == { i \in 1..Len(filesets) : contains(filesets[i], path) }
    IN  IF hits = { } THEN 0 ELSE CHOOSE i \in hits : \A j \in hits : i <= j

\* The value undefined where a file record is expected.
NoRecord == [ undefined |-> TRUE ]

\* Fileset.makeFileRecord with status = true: the record of the fileset's
\* processor.  JSONDataFSP calls this.readFile, which no processor class
\* defines; the page processor reads the file, which succeeds or fails (io).
filesetMakeFileRecord(fileset, path, io) ==
    LET record == [ path |-> path, category |-> fileset.category,
                    status |-> "published" ]
    IN  CASE fileset.processor = "JSONDataFSP"
                -> [ value |-> NoRecord, err |-> "TypeError" ]
          [] fileset.processor = "RelocatablePageFSP" /\ io = "error"
                -> [ value |-> NoRecord, err |-> "read error" ]
          [] OTHER -> [ value |-> record, err |-> "none" ]

\* makeFileRecord: undefined without a fileset, else the fileset's record.
makeFileRecord(filesets, path, io) ==
    LET i == getFilesetForPath(filesets, path)
    IN  IF i = 0 THEN [ value |-> NoRecord, err |-> "none" ]
        ELSE filesetMakeFileRecord(filesets[i], path, io)

\* makeFileRecords( ctx, version, paths ) entered: an empty fileset cache,
\* no records, the loop before the first path.
NewCall(paths) ==
    [ pc |-> "loop", paths |-> paths, i |-> 1, records |-> << >>,
      fsCache |-> << >>, error |-> "none" ]

InitRecords ==
    /\ profile = "records"
    /\ peer = NoPeer
    /\ \E paths \in SeqsUpTo(Paths, MaxPaths) : call = NewCall(paths)
    /\ vars = NewVars(<< >>)
    /\ state = "find-doctype"
    /\ buffer = NewWriteBuffer(BufferSize)
    /\ input = << >>
    /\ nchunks = 0
    /\ pc = "idle"
    /\ awaiting = "none"
    /\ thrown = "none"

\* One turn of the loop of makeFileRecords: the record of the next path is
\* awaited and pushed; a rejection ends the call.
MakeFileRecordsPush(io) ==
    /\ call.pc = "loop"
    /\ call.i <= Len(call.paths)
    /\ LET filesets == IF call.fsCache = << >> THEN DefaultFilesets ELSE call.fsCache
           r == makeFileRecord(filesets, call.paths[call.i], io)
       IN  call' = IF r.err # "none"
                   THEN [call EXCEPT !.pc = "rejected", !.error = r.err,
                                     !.fsCache = filesets]
                   ELSE [call EXCEPT !.records = Append(@, r.value),
                                     !.i = @ + 1, !.fsCache = filesets]
    /\ UNCHANGED <<state, vars, buffer, input, nchunks, pc, awaiting, thrown,
                   profile, peer>>

\* return records.
MakeFileRecordsReturn ==
    /\ call.pc = "loop"
    /\ call.i > Len(call.paths)
    /\ call' = [call EXCEPT !.pc = "returned"]
    /\ UNCHANGED <<state, vars, buffer, input, nchunks, pc, awaiting, thrown,
                   profile, peer>>

NextRecords ==
    \/ \E io \in { "ok", "error" } : MakeFileRecordsPush(io)
    \/ MakeFileRecordsReturn

SpecRecords == InitRecords /\ [][NextRecords]_allvars

----------------------------------------------------------------------------
(* WriteBuffer on its own, with the memory of its Buffers: a Buffer is an  *)
(* allocation in heap, and the chunk flush pushes is Buffer.slice(), a     *)
(* view of an allocation and not a copy.  The transformer allocates 4096   *)
(* units; the calls below run on buffers of a few units, so that a write   *)
(* finds the buffer full.                                                  *)

MaxBufferSize == 3      \* units per allocation
MaxCalls      == 5      \* calls on one WriteBuffer

\* Buffer.alloc( size ): zero-filled.
BufferAlloc(size) == [i \in 1..size |-> 0]

\* new WriteBuffer( outs, size ).
WB_new(size) ==
    [heap |-> << BufferAlloc(size) >>, buf |-> 1, offset |-> 0, outs |-> << >>]

\* flush() keeping its Buffer, to be written again from offset 0.
WB_flush_reusesBuffer(w) ==
    [w EXCEPT !.outs = IF w.offset > 0
                       THEN Append(w.outs, [buf |-> w.buf, len |-> w.offset])
                       ELSE w.outs,
              !.offset = 0]

\* flush() pushing the view [0, offset) whatever the offset is.
WB_flush_pushesEmpty(w) ==
    [heap   |-> Append(w.heap, BufferAlloc(Len(w.heap[w.buf]))),
     buf    |-> Len(w.heap) + 1,
     offset |-> 0,
     outs   |-> Append(w.outs, [buf |-> w.buf, len |-> w.offset])]

\* flush(): push the view [0, offset) of the Buffer, then allocate another.
WB_flush(w) ==
    [heap   |-> Append(w.heap, BufferAlloc(Len(w.heap[w.buf]))),
     buf    |-> Len(w.heap) + 1,
     offset |-> 0,
     outs   |-> IF w.offset > 0
                THEN Append(w.outs, [buf |-> w.buf, len |-> w.offset])
                ELSE w.outs]

\* writeChar( ch ) writing a full Buffer again from offset 0 without
\* pushing it.
WB_writeChar_dropsFull(w, ch) ==
    LET o == IF w.offset >= Len(w.heap[w.buf]) THEN 0 ELSE w.offset
    IN  [w EXCEPT !.heap[w.buf][o + 1] = ch % 256, !.offset = o + 1]

\* writeChar( ch ).
WB_writeChar(w, ch) ==
    LET w1 == IF w.offset >= Len(w.heap[w.buf]) THEN WB_flush(w) ELSE w
    IN  [w1 EXCEPT !.heap[w1.buf][w1.offset + 1] = ch % 256,
                   !.offset = w1.offset + 1]

RECURSIVE WB_writeChunkFrom(_, _, _)
WB_writeChunkFrom(w, chunk, i) ==
    IF i > Len(chunk) THEN w
    ELSE With(WB_writeChar(w, chunk[i]),
              LAMBDA w1 : WB_writeChunkFrom(w1, chunk, i + 1))

\* writeChunk( chunk ), for a string of ASCII characters or an array of
\* bytes.
WB_writeChunk(w, chunk) == WB_writeChunkFrom(w, chunk, 1)

\* What the i-th chunk pushed downstream holds now.
ChunkContents(w, i) == SubSeq(w.heap[w.outs[i].buf], 1, w.outs[i].len)

\* The units [0, offset) of the current Buffer.
Pending(w) == SubSeq(w.heap[w.buf], 1, w.offset)

\* The bytes and chunks the calls are made with.
WB_Units  == { Chars.Dash, 233 }
WB_Chunks == { << >>, U(<< "a", "b" >>), U(<< "w", "x", "y", "z" >>) }

\* A WriteBuffer of its own; input is the log of the units written.
InitBuffer ==
    /\ profile = "buffer"
    /\ \E size \in 1..MaxBufferSize : buffer = WB_new(size)
    /\ input = << >>
    /\ nchunks = 0
    /\ pc = "new"
    /\ state = "find-doctype"
    /\ vars = NewVars(<< >>)
    /\ awaiting = "none"
    /\ thrown = "none"
    /\ peer = NoPeer
    /\ call = NoCall

WriteCharCall(ch) ==
    /\ nchunks < MaxCalls
    /\ buffer' = WB_writeChar(buffer, ch)
    /\ input' = Append(input, ch)
    /\ nchunks' = nchunks + 1
    /\ pc' = "writeChar"
    /\ UNCHANGED <<state, vars, awaiting, thrown, profile, peer, call>>

WriteChunkCall(chunk) ==
    /\ nchunks < MaxCalls
    /\ buffer' = WB_writeChunk(buffer, chunk)
    /\ input' = input \o chunk
    /\ nchunks' = nchunks + 1
    /\ pc' = "writeChunk"
    /\ UNCHANGED <<state, vars, awaiting, thrown, profile, peer, call>>

FlushCall ==
    /\ nchunks < MaxCalls
    /\ buffer' = WB_flush(buffer)
    /\ nchunks' = nchunks + 1
    /\ pc' = "flush"
    /\ UNCHANGED <<state, vars, input, awaiting, thrown, profile, peer, call>>

NextBuffer ==
    \/ \E ch \in WB_Units : WriteCharCall(ch)
    \/ \E chunk \in WB_Chunks : WriteChunkCall(chunk)
    \/ FlushCall

SpecBuffer == InitBuffer /\ [][NextBuffer]_allvars

----------------------------------------------------------------------------
(* Reference notions the claims are stated with.                           *)

\* Whether pat occurs in s at index i.
OccursAt(s, pat, i) ==
    i >= 1 /\ i + Len(pat) - 1 <= Len(s) /\ SubSeq(s, i, i + Len(pat) - 1) = pat

\* The first index at or after from where pat occurs in s, 0 if none.
FindFrom(s, pat, from) ==
    LET hits == { i \in from..Len(s) : OccursAt(s, pat, i) }
    IN  IF hits = { } THEN 0 ELSE CHOOSE i \in hits : \A j \in hits : i <= j

AsciiLower(u) == IF u >= 65 /\ u <= 90 THEN u + 32 ELSE u

\* Whether the first non-whitespace content of s is <!DOCTYPE html>: the
\* units between the first < and the first > spell !doctypehtml once white
\* space is removed and letters are lower-cased.
PassesDoctypeGate(s) ==
    LET ws == { i \in 1..Len(s) : ~isWhitespace(s[i]) }
        lt == IF ws = { } THEN 0 ELSE CHOOSE i \in ws : \A j \in ws : i <= j
        gt == FindFrom(s, << Chars.Gt >>, 1)
        inner == SelectSeq(SubSeq(s, lt + 1, gt - 1), isNonWhitespace)
    IN  /\ lt > 0
        /\ s[lt] = Chars.Lt
        /\ gt > lt
        /\ [i \in 1..Len(inner) |-> AsciiLower(inner[i])] = DOCTYPE

\* Start tags of well-formed HTML whose only URL is the href of an a tag.
T_ahrefU == U(<< "<", "a", " ", "h", "r", "e", "f", "=", "/", "x", ">" >>)

RECURSIVE IsTagsFrom(_, _)
\* Whether s from index i on is a sequence of the start tags <p hidden> and
\* <a href=/x>.
IsTagsFrom(s, i) ==
    IF i > Len(s) THEN TRUE
    ELSE IF OccursAt(s, C_phidden, i) THEN IsTagsFrom(s, i + Len(C_phidden))
    ELSE IF OccursAt(s, T_ahrefU, i) THEN IsTagsFrom(s, i + Len(T_ahrefU))
    ELSE FALSE

RECURSIVE PrefixedTagsFrom(_, _, _)
\* Those tags with the prefix put before every href value.
PrefixedTagsFrom(s, prefix, i) ==
    IF i > Len(s) THEN << >>
    ELSE IF OccursAt(s, C_phidden, i)
    THEN C_phidden \o PrefixedTagsFrom(s, prefix, i + Len(C_phidden))
    ELSE C_aopen \o prefix \o C_x \o C_gt
            \o PrefixedTagsFrom(s, prefix, i + Len(T_ahrefU))

\* A document that is the doctype and then such start tags, at least one.
IsTagsDoc(s) ==
    /\ OccursAt(s, DoctypeHtml, 1)
    /\ Len(s) > Len(DoctypeHtml)
    /\ IsTagsFrom(s, Len(DoctypeHtml) + 1)

RECURSIVE IsScriptsFrom(_, _)
\* Whether s from index i on is a sequence of script elements: <script> or
\* <script async>, a body, and the first </script after it, closed by >.
IsScriptsFrom(s, i) ==
    IF i > Len(s) THEN TRUE
    ELSE LET open == IF OccursAt(s, C_script, i) THEN Len(C_script)
                     ELSE IF OccursAt(s, C_scriptA, i) THEN Len(C_scriptA) ELSE 0
             close == FindFrom(s, ScriptEnd, i + open) - 1
         IN  /\ open > 0
             /\ close > 0
             /\ OccursAt(s, C_endscr, close)
             /\ IsScriptsFrom(s, close + Len(C_endscr))

\* A document that is the doctype and then script elements, at least one.
IsScriptDoc(s) ==
    /\ OccursAt(s, DoctypeHtml, 1)
    /\ Len(s) > Len(DoctypeHtml)
    /\ IsScriptsFrom(s, Len(DoctypeHtml) + 1)

\* A document that is the doctype and then one comment, from <!-- up to and
\* including the next -->.
IsCommentDoc(s) ==
    LET from == Len(DoctypeHtml) + Len(C_comment) + 1
    IN  /\ OccursAt(s, DoctypeHtml \o C_comment, 1)
        /\ FindFrom(s, C_endcom, from) > 0
        /\ FindFrom(s, C_endcom, from) = Len(s) - Len(C_endcom) + 1

ValueEndStates == { "find-attr-value-end-quote", "find-attr-value-end-no-quote" }

----------------------------------------------------------------------------
(* Claims.                                                                 *)

\* C1: with the empty prefix, once the stream has ended the units pushed
\* downstream are exactly the units written, whatever the input.
C1_Identity ==
    (pc = "flushed" /\ vars.prefix = << >>) => Emitted = input

\* C2: an input that does not start, after white space, with <!DOCTYPE html>
\* is pushed downstream unchanged, whatever the prefix.
C2_DoctypeGating ==
    (pc = "flushed" /\ ~PassesDoctypeGate(input)) => Emitted = input

\* C2's case: a non-empty prefix, a document refused by the gate only at its
\* first >, and an <a href="/x"> after it that was left alone.
C2_Witness ==
    /\ pc = "flushed"
    /\ vars.prefix # << >>
    /\ input # << >>
    /\ input[1] = Chars.Lt
    /\ ~PassesDoctypeGate(input)
    /\ FindFrom(input, C_ahref, 1) > 0
    /\ Emitted = input

\* C3: in a document that passed the gate, every href of an a tag whose
\* value begins with one / is emitted with the prefix before the value.
C3_AbsolutePathRewriting ==
    (pc = "flushed" /\ IsTagsDoc(input))
        => Emitted = DoctypeHtml
                        \o PrefixedTagsFrom(input, vars.prefix, Len(DoctypeHtml) + 1)

\* C4: prefixValue emits the prefix and then the value if the value begins
\* with / and does not go on with /, and the value alone otherwise.
C4_SingleURLStrategy ==
    (pc = "returned" /\ vars.writeAttr = "prefixValue")
        => LET value == vars.attrValue
               absolute == /\ Len(value) >= 1
                           /\ value[1] = Chars.Slash
                           /\ (Len(value) = 1 \/ value[2] # Chars.Slash)
           IN  Written(buffer) = (IF absolute THEN vars.prefix ELSE << >>) \o value

\* C4's case: a protocol-relative value went through prefixValue with a
\* non-empty prefix and came out as it was.
C4_Witness ==
    /\ pc = "returned"
    /\ vars.writeAttr = "prefixValue"
    /\ vars.prefix # << >>
    /\ Len(vars.attrValue) >= 3
    /\ vars.attrValue[1] = Chars.Slash
    /\ vars.attrValue[2] = Chars.Slash
    /\ Written(buffer) = vars.attrValue

\* The URL of a value that holds one URL for the strategy called, Undefined
\* if the value is not of that shape: the whole value (single-URL), a lone
\* candidate without descriptor (srcset), what follows a leading url( (CSS).
OneURL(strategy, value) ==
    LET plain(u) == \A i \in 1..Len(u) : u[i] # Ord(",") /\ u[i] \notin JsWhitespace
    IN  CASE strategy = "prefixValue" -> value
          [] strategy = "prefixSrcSetValues" ->
                IF plain(value) THEN value ELSE Undefined
          [] strategy = "prefixCSSURLValues" ->
                IF /\ OccursAt(value, UrlOpen, 1)
                   /\ plain(SubSeq(value, 5, Len(value)))
                   /\ FindFrom(value, UrlOpen, 2) = 0
                THEN SubSeq(value, 5, Len(value)) ELSE Undefined
          [] OTHER -> Undefined

\* Relative (not beginning with /) or protocol-relative (beginning with //).
NotAbsolutePath(url) ==
    url = << >> \/ url[1] # Chars.Slash \/ (Len(url) >= 2 /\ url[2] = Chars.Slash)

\* C5: no strategy puts the prefix before a URL that is relative or
\* protocol-relative: the value is emitted as it is.
C5_NoPrefixOnRelativeURL ==
    (/\ pc = "returned"
     /\ OneURL(vars.writeAttr, vars.attrValue) # Undefined
     /\ NotAbsolutePath(OneURL(vars.writeAttr, vars.attrValue)))
        => Written(buffer) = vars.attrValue

\* C6: in a document that passed the gate, the body of every script element
\* is emitted unchanged.
C6_ScriptBodyImmunity ==
    (pc = "flushed" /\ IsScriptDoc(input)) => Emitted = input

\* C7: in a document that passed the gate, a comment is emitted verbatim
\* from <!-- to the next -->, whatever follows <!--.
C7_CommentImmunity ==
    (pc = "flushed" /\ IsCommentDoc(input)) => Emitted = input

\* C8: no step of the state table and no strategy raises, so _transform
\* never throws.
C8_NeverThrows == thrown = "none"

\* C9: after end() the transformer flushes and then signals completion: it
\* does not stop while the flush callback is still to be invoked.
C9_Completion ==
    pc = "flushed" => (awaiting = "none" \/ ENABLED Next)

\* C10: when the stream ends inside an attribute value, the flush emits the
\* units written so far, then the accumulated value verbatim, and leaves
\* nothing pending in the buffer.
C10_FlushDanglingValue ==
    [][(pc = "open" /\ pc' = "flushed" /\ state \in ValueEndStates)
        => /\ Concat(buffer'.outs) = Written(buffer) \o vars.attrValue
           /\ buffer'.data = << >>]_allvars

\* C10's case: the stream ended inside the quoted value /x of an href of an
\* a tag, with a non-empty prefix, and the value came out without it.
C10_Witness ==
    /\ pc = "flushed"
    /\ state = "find-attr-value-end-quote"
    /\ vars.writeAttr = "prefixValue"
    /\ vars.prefix # << >>
    /\ vars.attrValue = C_x
    /\ Emitted = DoctypeHtml \o C_aopen \o C_quote \o C_x

\* White space of the ASCII range.
AsciiSpace == { 9, 10, 11, 12, 13, 32 }

RECURSIVE SrcSetFrom(_, _, _)
\* The srcset value expected for the candidates of value from index i on:
\* each candidate runs to the next comma, loses the white space around it,
\* gets the prefix if it begins with /, and is followed by ", " unless last.
SrcSetFrom(value, prefix, i) ==
    LET commas == { j \in i..Len(value) : value[j] = Ord(",") }
        stop == IF commas = { } THEN Len(value) + 1
                ELSE CHOOSE j \in commas : \A k \in commas : j <= k
        inner == { j \in i..(stop - 1) : value[j] \notin AsciiSpace }
        cand == IF inner = { } THEN << >>
                ELSE SubSeq(value, CHOOSE j \in inner : \A k \in inner : j <= k,
                                   CHOOSE j \in inner : \A k \in inner : j >= k)
        out == (IF cand # << >> /\ cand[1] = Chars.Slash THEN prefix ELSE << >>) \o cand
    IN  IF stop > Len(value) THEN out
        ELSE out \o CommaSpace \o SrcSetFrom(value, prefix, stop + 1)

\* C11: prefixSrcSetValues emits the candidates of the value, trimmed, each
\* with the prefix before it if it begins with /, joined with ", ".
C11_SrcSetRewriting ==
    (pc = "returned" /\ vars.writeAttr = "prefixSrcSetValues")
        => Written(buffer) = SrcSetFrom(vars.attrValue, vars.prefix, 1)

RECURSIVE CssUrlFrom(_, _, _)
\* The style value expected from index i on: the prefix goes before the /
\* of every url( that is followed, after optional white space, by one /
\* and not two; every other unit is kept.
CssUrlFrom(value, prefix, i) ==
    IF i > Len(value) THEN << >>
    ELSE LET rest == { j \in (i + 4)..Len(value) : value[j] \notin AsciiSpace }
             k == IF rest = { } THEN 0
                  ELSE CHOOSE j \in rest : \A l \in rest : j <= l
         IN  IF /\ OccursAt(value, UrlOpen, i)
                /\ k > 0
                /\ value[k] = Chars.Slash
                /\ (k = Len(value) \/ value[k + 1] # Chars.Slash)
             THEN SubSeq(value, i, k - 1) \o prefix \o << Chars.Slash >>
                    \o CssUrlFrom(value, prefix, k + 1)
             ELSE << value[i] >> \o CssUrlFrom(value, prefix, i + 1)

\* C12: prefixCSSURLValues emits the value with the prefix before the / of
\* every url( + optional white space + single /, and changes nothing else.
C12_CSSURLRewriting ==
    (pc = "returned" /\ vars.writeAttr = "prefixCSSURLValues")
        => Written(buffer) = CssUrlFrom(vars.attrValue, vars.prefix, 1)

\* The states in which the machine is among the attributes of a tag, and
\* those of them in which the attribute name has been completed.
AttrStates ==
    { "find-attr-name-start", "read-attr-name", "find-attr-equals",
      "find-attr-value-start", "find-attr-value-end-quote",
      "find-attr-value-end-no-quote" }
NamedStates == AttrStates \ { "find-attr-name-start", "read-attr-name" }

\* The key of the rewrite table whose attribute table a tag name selects.
TableOf(tagName) == IF tagName \in DOMAIN RewriteTags THEN tagName ELSE N_star

\* The strategy the attribute table of that key gives an attribute name.
StrategyOf(key, attrName) ==
    IF attrName \in DOMAIN RewriteTags[key] THEN RewriteTags[key][attrName]
    ELSE "writeValue"

\* C13: once a tag name is completed the active table is that of the tag
\* name if the rewrite table has it, the wildcard's otherwise; once an
\* attribute name is completed its strategy is the table's entry for it,
\* passthrough if it has none.
C13_StrategyLookup ==
    /\ state \in AttrStates => vars.attrs = TableOf(vars.tagName)
    /\ (state \in NamedStates /\ vars.attrs \in DOMAIN RewriteTags)
            => vars.writeAttr = StrategyOf(vars.attrs, vars.attrName)

\* Documents that are the doctype and one start tag with a style attribute.
StyleTagNames == { C_a, C_p, C_base }
StyleRewritten(tag, prefix) ==
    DoctypeHtml \o tag \o U(<< " ", "s", "t", "y", "l", "e", "=", "\"", "u", "r", "l", "(" >>)
        \o prefix \o U(<< "/", "x", ")", "\"" >>) \o C_gt

\* C14: the style attribute of every tag, with or without an entry of its
\* own in the rewrite table, is rewritten with the CSS-URL strategy.
C14_WildcardAllTags ==
    \A tag \in StyleTagNames :
        (pc = "flushed" /\ input = DoctypeHtml \o tag \o C_style \o C_gt)
            => Emitted = StyleRewritten(tag, vars.prefix)

\* The transformer of that prefix after one write of s as a single chunk.
SingleChunk(prefix, s) ==
    transformLoop("find-doctype", NewWriteBuffer(BufferSize), NewVars(prefix), s, 1)

\* C15: however the input was split into chunks, after end() the units
\* pushed downstream are those pushed when it is written as one chunk.
C15_ChunkingIndependence ==
    pc = "flushed"
        => LET r == SingleChunk(vars.prefix, input)
           IN  /\ r.err = "none"
               /\ Emitted = Concat(flushTransformer(r.vars, r.buffer).outs)

\* C15's case: <a href="/x"> after the doctype, written in five chunks, one
\* of them empty, that split the doctype and the value, and rewritten.
C15_Witness ==
    /\ pc = "flushed"
    /\ nchunks = 5
    /\ vars.prefix # << >>
    /\ input = DoctypeHtml \o C_ahref
    /\ Emitted = DoctypeHtml \o C_aopen \o C_quote \o vars.prefix \o C_x \o C_quote \o C_gt

\* Whether an instance with these fields is where a transformer of its
\* prefix is when it runs alone on the input s: after its writes while the
\* stream is open, after its flush once the stream has ended.
RunsAsAlone(st, v, b, s, p) ==
    LET r == SingleChunk(v.prefix, s)
    IN  /\ st = r.state
        /\ v = r.vars
        /\ b = (IF p = "flushed" THEN flushTransformer(r.vars, r.buffer) ELSE r.buffer)

\* C16: of two instances whose writes and ends interleave, each has the
\* state, parse context, buffer and output it has when it runs alone on its
\* own input.
C16_InstanceIndependence ==
    /\ RunsAsAlone(state, vars, buffer, input, pc)
    /\ RunsAsAlone(peer.state, peer.vars, peer.buffer, peer.input, peer.pc)

\* C16's case: the second instance has ended with <a href="/x"> rewritten
\* with its prefix while the first is still inside the value of its href.
C16_Witness ==
    /\ peer.pc = "flushed"
    /\ Concat(peer.buffer.outs)
          = DoctypeHtml \o C_aopen \o C_quote \o stripPrefix(PeerPrefix) \o C_x
                \o C_quote \o C_gt
    /\ pc = "open"
    /\ state = "find-attr-value-end-quote"
    /\ vars.prefix # << >>
    /\ vars.attrValue = << Chars.Slash, Ord("x") >>

\* The units of s that are outside ASCII, in order.
IsHigh(u) == u >= 128
HighUnits(s) == SelectSeq(s, IsHigh)

\* C17: every input unit of value 128 or more is emitted once, with its
\* value, whatever state the machine was in when it read it.
C17_NonAsciiPassthrough ==
    pc = "flushed" => HighUnits(Emitted) = HighUnits(input)

\* C18: makeFileRecords returns one file record for each path that belongs
\* to a fileset and nothing for the others: no entry is undefined.
C18_MakeFileRecordsFilters ==
    call.pc = "returned"
        => /\ \A i \in 1..Len(call.records) : call.records[i] # NoRecord
           /\ Len(call.records)
                = Cardinality({ i \in 1..Len(call.paths) :
                                  getFilesetForPath(DefaultFilesets, call.paths[i]) # 0 })

\* C19: from writethrough-to-end every step stays there, leaves the parse
\* context as it is, and writes the units it is handed once each, unchanged
\* and in order, after what was written before.
C19_WritethroughToEndAbsorbing ==
    [][state = "writethrough-to-end"
        => /\ state' = "writethrough-to-end"
           /\ vars' = vars
           /\ Written(buffer') = Written(buffer)
                                    \o SubSeq(input', Len(input) + 1, Len(input'))]_allvars

\* C19's case: a stream that entered writethrough-to-end at its first unit
\* and then carried a non-ASCII character and <a href="/x">, all emitted
\* as written although the prefix is not empty.
C19_Witness ==
    /\ pc = "flushed"
    /\ state = "writethrough-to-end"
    /\ vars.prefix # << >>
    /\ input = C_letter \o V_eacute \o C_ahref
    /\ Emitted = input

\* Where the doctype decision stands after the units s: "find-doctype"
\* while only white space was read, "read-doctype" while the units after
\* the first < hold no > and at most 12 that are not white space,
\* "writethrough" if the non-white-space units between that < and the
\* first > are at most 12 and spell !doctypehtml in lower case, and
\* "writethrough-to-end" otherwise; with the index where it was taken.
DoctypeDecision(s) ==
    LET nonws == { i \in 1..Len(s) : ~isWhitespace(s[i]) }
        lt == IF nonws = { } THEN 0 ELSE CHOOSE i \in nonws : \A j \in nonws : i <= j
        gts == { i \in (lt + 1)..Len(s) : s[i] = Chars.Gt }
        gt == IF gts = { } THEN 0 ELSE CHOOSE i \in gts : \A j \in gts : i <= j
        last == IF gt = 0 THEN Len(s) ELSE gt - 1
        inner == { i \in (lt + 1)..last : i \in nonws }
        over == { i \in inner : Cardinality({ j \in inner : j <= i }) > 12 }
        name == SelectSeq(SubSeq(s, lt + 1, last), isNonWhitespace)
    IN  IF lt = 0 THEN [state |-> "find-doctype", at |-> Len(s)]
        ELSE IF s[lt] # Chars.Lt THEN [state |-> "writethrough-to-end", at |-> lt]
        ELSE IF over # { }
            THEN [state |-> "writethrough-to-end",
                  at |-> CHOOSE i \in over : \A j \in over : i <= j]
        ELSE IF gt = 0 THEN [state |-> "read-doctype", at |-> Len(s)]
        ELSE IF [i \in 1..Len(name) |-> AsciiLower(name[i])] = DOCTYPE
            THEN [state |-> "writethrough", at |-> gt]
        ELSE [state |-> "writethrough-to-end", at |-> gt]

DoctypeStates == { "find-doctype", "read-doctype", "writethrough-to-end" }

\* C20: the machine leaves read-doctype for writethrough exactly on the >
\* that closes !doctypehtml (case and white space apart), for
\* writethrough-to-end on any other > or at the 13th non-white-space unit,
\* and every unit read up to the decision is written unchanged.
C20_DoctypeDecision ==
    LET d == DoctypeDecision(input)
    IN  /\ d.state \in DoctypeStates => state = d.state
        /\ d.state = "writethrough" => state \notin DoctypeStates
        /\ SubSeq(Written(buffer), 1, d.at) = SubSeq(input, 1, d.at)

\* C20's case: " <!DocType html>" written in three chunks has taken the
\* machine to writethrough, and all of it was written.
C20_Witness ==
    /\ pc = "open"
    /\ input = H_mixed \o C_html \o C_gt
    /\ state = "writethrough"
    /\ Written(buffer) = input

\* Whether the units s end with the units t.
EndsWith(s, t) ==
    /\ Len(s) >= Len(t)
    /\ SubSeq(s, Len(s) - Len(t) + 1, Len(s)) = t

\* Whether the units pre are the doctype, then complete script elements
\* opened by <script>, then one more <script>: the next unit is the first
\* of a script body.
OpensScriptBody(pre) ==
    /\ EndsWith(pre, C_script)
    /\ OccursAt(pre, DoctypeHtml, 1)
    /\ FindFrom(pre, C_scriptA, 1) = 0
    /\ IsScriptsFrom(SubSeq(pre, 1, Len(pre) - Len(C_script)), Len(DoctypeHtml) + 1)

\* The index of the first unit of a script body that ends a candidate name
\* equal to /script started by a < of the body: the < is followed by
\* exactly /script and then by a unit that neither continues a name nor
\* starts another; 0 if there is none.
ScriptExit(body) ==
    LET n == Len(ScriptEnd)
        ends == { j \in (n + 2)..Len(body) :
                    /\ body[j - n - 1] = Chars.Lt
                    /\ SubSeq(body, j - n, j - 1) = ScriptEnd
                    /\ body[j] \notin { Chars.Lt, Chars.Slash }
                    /\ ~isNameChar(body[j]) }
    IN  IF ends = { } THEN 0 ELSE CHOOSE j \in ends : \A k \in ends : j <= k

\* C21: while no unit of a script body has ended a candidate name equal to
\* /script that a < of the same body started, the machine is in
\* find-script-end; at the unit that ends one it is in writethrough.
C21_ScriptExit ==
    \A k \in 1..Len(input) :
        (thrown = "none" /\ OpensScriptBody(SubSeq(input, 1, k))) =>
            LET body == SubSeq(input, k + 1, Len(input))
            IN  /\ ScriptExit(body) = 0 => state = "find-script-end"
                /\ (body # << >> /\ ScriptExit(body) = Len(body))
                       => state = "writethrough"

\* The parse-context buffers that are present, by the state each belongs to.
PresentBuffers ==
    { st \in { "read-doctype", "find-script-end", "find-comment-end" } :
        CASE st = "read-doctype"     -> vars.doctype # Undefined
          [] st = "find-script-end"  -> vars.currentTag # Undefined
          [] st = "find-comment-end" -> vars.cbuff # Undefined }

\* C22: at most one of vars.doctype, vars.currentTag and vars.cbuff is
\* present, and only while the machine is in the state that uses it.
C22_ParseContextExclusivity ==
    /\ Cardinality(PresentBuffers) <= 1
    /\ PresentBuffers \subseteq { state }

\* C23: vars.attrValue holds an accumulated value exactly while the machine
\* is in one of the two states that read an attribute value.
C23_AttrValuePresence ==
    Truthy(vars.attrValue) <=> state \in ValueEndStates

\* Whether the unit ch ends the attribute value being read in state st.
IsTerminator(st, v, ch) ==
    \/ ch = Chars.Gt
    \/ st = "find-attr-value-end-quote" /\ ch = v.endQuote
    \/ st = "find-attr-value-end-no-quote" /\ isWhitespace(ch)

\* What one call of the attribute's resolved strategy writes for the value
\* accumulated in v.
StrategyOutput(v) ==
    Written(callWriteAttr(v, NewWriteBuffer(BufferSize)).buffer)

\* C24: while a value is being read nothing is emitted; the step that
\* consumes the value's terminator emits the output of one call of the
\* attribute's strategy and then the terminator.
C24_SingleFiring ==
    [][ (state \in ValueEndStates /\ input' # input) =>
          LET chunk == SubSeq(input', Len(input) + 1, Len(input'))
          IN  IF IsTerminator(state, vars, chunk[1])
              THEN OccursAt(Written(buffer'),
                            Written(buffer) \o StrategyOutput(vars) \o << chunk[1] >>, 1)
              ELSE (\A i \in 1..Len(chunk) : ~IsTerminator(state, vars, chunk[i]))
                       => /\ Written(buffer') = Written(buffer)
                          /\ vars'.attrValue = vars.attrValue \o chunk ]_allvars

\* The states that hand a unit to endOfTagCheck without reading a value.
TagStates == { "read-tag-name", "find-attr-name-start", "find-attr-equals" }

\* The lower-cased name of the tag being read.
CurrentTagName ==
    IF state = "read-tag-name" THEN toLowerCase(str(vars.tagName)) ELSE vars.tagName

\* Where one step on the unit ch takes the machine from the current
\* configuration, or the error the step raises.
StepOn(ch) ==
    LET r == SM(state, ch, buffer, vars)
    IN  IF r.err = "none" THEN r.next ELSE r.err

\* C25: in a tag whose name is not !--, a / read in read-tag-name,
\* find-attr-name-start or find-attr-equals leads to writethrough, and a >
\* read in those states or in a value-end state leads to find-script-end
\* if the tag is script and to writethrough otherwise.
C25_EndOfTagCheck ==
    (thrown = "none" /\ ~(state = "read-tag-name" /\ CurrentTagName = CommentStart)) =>
        /\ state \in TagStates => StepOn(Chars.Slash) = "writethrough"
        /\ state \in TagStates \cup ValueEndStates =>
               StepOn(Chars.Gt) = (IF CurrentTagName = N_script
                                   THEN "find-script-end" ELSE "writethrough")

\* Whether the units pre are the doctype, then complete comments <!-- -->,
\* then <!-- and one unit that ends that tag name: the next unit is the
\* first one consumed inside the comment.
OpensComment(pre) ==
    LET w == Len(C_wholecom)
        n == Len(pre) - Len(DoctypeHtml) - Len(C_comment) - 1
    IN  /\ n >= 0
        /\ n % w = 0
        /\ OccursAt(pre, DoctypeHtml, 1)
        /\ \A i \in 0..((n \div w) - 1) :
               OccursAt(pre, C_wholecom, Len(DoctypeHtml) + 1 + i * w)
        /\ OccursAt(pre, C_comment, Len(pre) - Len(C_comment))
        /\ ~isTagChar(pre[Len(pre)])

\* The index of the first unit of a comment after which the last three
\* units consumed inside the comment are -->; 0 if there is none.
CommentExit(body) ==
    LET ends == { j \in 3..Len(body) : OccursAt(body, C_endcom, j - 2) }
    IN  IF ends = { } THEN 0 ELSE CHOOSE j \in ends : \A k \in ends : j <= k

\* C26: inside a comment the machine stays in find-comment-end until the
\* last three units consumed inside the comment are -->, is in writethrough
\* at that unit, and has emitted every unit it consumed unchanged.
C26_CommentExit ==
    \A k \in 1..Len(input) :
        OpensComment(SubSeq(input, 1, k)) =>
            LET body == SubSeq(input, k + 1, Len(input))
            IN  /\ CommentExit(body) = 0 => state = "find-comment-end"
                /\ (body # << >> /\ CommentExit(body) = Len(body))
                       => state = "writethrough"
                /\ CommentExit(body) \in { 0, Len(body) }
                       => Written(buffer) = input

\* C26's case: a second comment opened by <!-->, whose > is read before
\* the comment starts and does not close it, closed by the --> after it.
C26_Witness ==
    /\ input = DoctypeHtml \o C_wholecom \o C_comment \o C_gt \o C_endcom
    /\ state = "writethrough"
    /\ Written(buffer) = input

\* C27: the chunks pushed downstream followed by the pending units are the
\* units written, in write order; no chunk is empty or longer than the
\* buffer, and the offset stays within the buffer.
C27_BufferOrder ==
    /\ Concat([i \in 1..Len(buffer.outs) |-> ChunkContents(buffer, i)])
           \o Pending(buffer) = input
    /\ \A i \in 1..Len(buffer.outs) :
           buffer.outs[i].len \in 1..Len(buffer.heap[buffer.outs[i].buf])
    /\ buffer.offset <= Len(buffer.heap[buffer.buf])

\* C27's case: writes into a full buffer pushed the full contents twice and
\* one unit is pending.
C27_Witness ==
    /\ Len(buffer.heap[1]) = 2
    /\ input = U(<< "w", "x", "y", "z" >>) \o << 233 >>
    /\ Len(buffer.outs) = 2
    /\ ChunkContents(buffer, 1) = U(<< "w", "x" >>)
    /\ ChunkContents(buffer, 2) = U(<< "y", "z" >>)
    /\ Pending(buffer) = << 233 >>

\* C28: a call never changes what a chunk already pushed downstream holds,
\* and the Buffer written after a flush is one allocated by that flush.
C28_FreshBufferPerFlush ==
    [][ /\ \A i \in 1..Len(buffer.outs) :
               /\ buffer'.outs[i] = buffer.outs[i]
               /\ ChunkContents(buffer', i) = ChunkContents(buffer, i)
        /\ pc' = "flush" => buffer'.buf \notin 1..Len(buffer.heap) ]_allvars

\* C28's case: a chunk was pushed by a flush, and units written afterwards
\* are pending at the offsets the chunk was written at.
C28_Witness ==
    /\ pc = "writeChar"
    /\ Len(buffer.outs) = 1
    /\ ChunkContents(buffer, 1) = U(<< "a", "b" >>)
    /\ Pending(buffer) = << 233, Chars.Dash >>
    /\ input = U(<< "a", "b" >>) \o << 233, Chars.Dash >>

RECURSIVE SkipWhitespace(_, _)
\* The first index at or after i of s that holds no white space.
SkipWhitespace(s, i) ==
    IF i <= Len(s) /\ isWhitespace(s[i]) THEN SkipWhitespace(s, i + 1) ELSE i

\* The units of s up to where the first attribute value can start: all of
\* s if it holds no =, else the units up to the first =, the white space
\* after it and the quote that opens the value.
OutsideValueHead(s) ==
    LET e == FindFrom(s, << Chars.Eq >>, 1)
        q == SkipWhitespace(s, e + 1)
    IN  IF e = 0 THEN s
        ELSE IF q <= Len(s) /\ s[q] \in { Chars.DQuote, Chars.SQuote }
        THEN SubSeq(s, 1, q)
        ELSE SubSeq(s, 1, q - 1)

\* C29: once the stream has ended, the units up to the start of the first
\* attribute value, the white space between = and the value included, have
\* been emitted once, unchanged and in input order.
C29_OnlyAttributeValuesChange ==
    pc = "flushed" => OccursAt(Emitted, OutsideValueHead(input), 1)

RECURSIVE PrefixedAtX(_, _, _)
\* The units s from index i on with the prefix put before every /x.
PrefixedAtX(s, prefix, i) ==
    IF i > Len(s) THEN << >>
    ELSE IF OccursAt(s, C_x, i) THEN prefix \o C_x \o PrefixedAtX(s, prefix, i + Len(C_x))
    ELSE << s[i] >> \o PrefixedAtX(s, prefix, i + 1)

\* C30: in a gated document of a and img tags whose href and src hold /x,
\* every value is prefixed, in whatever letter case the tag and attribute
\* names are written.
C30_CaseInsensitiveMatching ==
    pc = "flushed" => Emitted = PrefixedAtX(input, vars.prefix, 1)

\* The capacity the WriteBuffer was constructed with.
Capacity(w) == Len(w.heap[1])

\* The offset lies within the capacity, every Buffer allocated has the
\* capacity, every chunk pushed holds between one unit and the capacity,
\* and the offset is 0 after a flush.
BufferBounds ==
    /\ buffer.offset \in 0..Capacity(buffer)
    /\ \A b \in 1..Len(buffer.heap) : Len(buffer.heap[b]) = Capacity(buffer)
    /\ \A i \in 1..Len(buffer.outs) : buffer.outs[i].len \in 1..Capacity(buffer)
    /\ pc = "flush" => buffer.offset = 0

\* A flush with offset 0 pushes nothing, any other flush pushes one chunk,
\* and a write into a full buffer leaves one unit pending.
FlushPushes ==
    /\ pc' = "flush" =>
           Len(buffer'.outs) = Len(buffer.outs) + (IF buffer.offset = 0 THEN 0 ELSE 1)
    /\ (pc' = "writeChar" /\ buffer.offset = Capacity(buffer)) =>
           /\ buffer'.offset = 1
           /\ Len(buffer'.outs) = Len(buffer.outs) + 1
           /\ buffer'.outs[Len(buffer'.outs)].len = Capacity(buffer)

\* C31: in a WriteBuffer of capacity N > 0 the offset stays in 0..N, every
\* chunk pushed downstream has between 1 and N units (a flush with offset 0
\* pushes nothing), and the offset is 0 right after every flush.
C31_BufferBounds == []BufferBounds /\ [][FlushPushes]_allvars

\* C31's case: a full buffer of two units was flushed, and a second flush
\* with offset 0 pushed nothing.
C31_Witness ==
    /\ pc = "flush"
    /\ nchunks = 3
    /\ Capacity(buffer) = 2
    /\ input = U(<< "a", "b" >>)
    /\ Len(buffer.outs) = 1
    /\ buffer.outs[1].len = 2
    /\ buffer.offset = 0

============================================================================
